---------------------------- MODULE Spec2Model ----------------------------
(***************************************************************************)
(* Model of examples/experimental/gaussian_splats.py: the two readers      *)
(* load_splat_file and load_ply_file, the covariance reconstruction they   *)
(* share, and the command-line entry point main.                           *)
(*                                                                         *)
(* Numbers.  Every float of the program is modelled by the exact rational  *)
(* it denotes, a pair <<n, d>> in lowest terms with d > 0; rounding is not *)
(* modelled, so "equal" below is what the specification calls "equal       *)
(* within floating-point tolerance".  Stored logarithms of a .ply file are *)
(* integer multiples of ln 2, on which exp is exactly a power of two.      *)
(* The inputs are chosen so that no intermediate value leaves the range    *)
(* of TLC's integers; IEEE infinities and NaN are outside the model.       *)
(*                                                                         *)
(* Indices.  Python indexes from 0, the sequences below from 1: row i of   *)
(* the program is element i + 1 of the model.                              *)
(***************************************************************************)
EXTENDS Integers, Sequences, FiniteSets, TLC

VARIABLES
    file,             \* readers called directly: the file on disk
    ret,              \* readers called directly: the value returned for center = c
    splat_paths,      \* main: the paths given on the command line
    test_multisplat,  \* main: the only flag of the command line
    pc,               \* main: where the program is
    i,                \* main: the loop index (from 0, as in the code)
    splat_data,       \* main: the value a reader returned for path i
    scene,            \* main: what was handed to the viewer, in order
    opened,           \* main: the indices of the paths whose bytes were read
    exit              \* main: how the process ended, if it did

vars == <<file, ret, splat_paths, test_multisplat, pc, i, splat_data, scene,
          opened, exit>>

-----------------------------------------------------------------------------
(* Bounds of the model. *)

\* Most records of a .splat file, and most vertices of a .ply file.
MaxGaussians == 2

\* Most bytes after the last whole record of a .splat file.
MaxExtra == 1

\* Most paths on the command line.
MaxPaths == 2

-----------------------------------------------------------------------------
(* Exact rational arithmetic, standing for numpy's floating point. *)

Abs(n) == IF n < 0 THEN -n ELSE n

RECURSIVE GCD(_, _)
GCD(a, b) == IF b = 0 THEN a ELSE GCD(b, a % b)

Rat(n, d) ==
    LET g == GCD(Abs(n), Abs(d))
        s == IF d < 0 THEN -1 ELSE 1
    IN  <<s * (n \div g), s * (d \div g)>>

Zero == <<0, 1>>
One == <<1, 1>>
Two == <<2, 1>>
Half == <<1, 2>>

RNeg(a) == <<-a[1], a[2]>>

RAdd(a, b) ==
    LET g == GCD(a[2], b[2])
        l == (a[2] \div g) * b[2]
    IN  Rat(a[1] * (l \div a[2]) + b[1] * (l \div b[2]), l)

RSub(a, b) == RAdd(a, RNeg(b))

RMul(a, b) ==
    LET g1 == GCD(Abs(a[1]), b[2])
        g2 == GCD(Abs(b[1]), a[2])
    IN  IF a[1] = 0 \/ b[1] = 0 THEN Zero
        ELSE <<(a[1] \div g1) * (b[1] \div g2), (a[2] \div g2) * (b[2] \div g1)>>

RDiv(a, b) == RMul(a, IF b[1] < 0 THEN <<-b[2], -b[1]>> ELSE <<b[2], b[1]>>)

RSq(a) == RMul(a, a)

RLess(a, b) == RSub(a, b)[1] < 0

RECURSIVE Pow2(_)
Pow2(k) == IF k = 0 THEN 1 ELSE 2 * Pow2(k - 1)

\* The sum of a sequence of rationals.
RECURSIVE RSum(_)
RSum(s) == IF s = <<>> THEN Zero ELSE RAdd(Head(s), RSum(Tail(s)))

\* Component-wise operations on vectors (sequences of rationals).
VSub(u, v) == [k \in DOMAIN u |-> RSub(u[k], v[k])]

-----------------------------------------------------------------------------
(* load_splat_file *)

bytes_per_gaussian == 3 * 4 + 3 * 4 + 4 + 4

\* A little-endian IEEE 754 binary32, as .view(onp.float32) reads four bytes.
RECURSIVE StripZeros(_, _)
StripZeros(sig, ex) ==
    IF sig % 2 = 0 THEN StripZeros(sig \div 2, ex + 1) ELSE <<sig, ex>>

Float32(b) ==
    LET sign == b[4] \div 128
        e    == (b[4] % 128) * 2 + (b[3] \div 128)
        mant == (b[3] % 128) * 65536 + b[2] * 256 + b[1]
        sig  == IF e = 0 THEN mant ELSE 8388608 + mant
        se   == StripZeros(sig, (IF e = 0 THEN 1 ELSE e) - 150)
        mag  == IF se[2] >= 0 THEN <<se[1] * Pow2(se[2]), 1>>
                ELSE <<se[1], Pow2(-se[2])>>
    IN  IF e = 255 THEN (IF mant = 0 THEN "inf" ELSE "nan")
        ELSE IF sig = 0 THEN Zero
        ELSE IF sign = 1 THEN RNeg(mag) ELSE mag

\* A plausible slip: the rows counted from the end of the buffer.
SplatRowReversed(splat_buffer, n) ==
    LET num == Len(splat_buffer) \div bytes_per_gaussian
    IN  SubSeq(splat_buffer, (num - n) * bytes_per_gaussian + 1,
               (num - n + 1) * bytes_per_gaussian)

\* splat_uint8 = frombuffer(...).reshape((num_gaussians, bytes_per_gaussian)):
\* row n (from 1) of the reshaped buffer.
SplatRow(splat_buffer, n) ==
    SubSeq(splat_buffer, (n - 1) * bytes_per_gaussian + 1, n * bytes_per_gaussian)

\* row[lo:hi].view(onp.float32): the floats of the byte columns lo .. hi - 1.
ViewFloat32(row, lo, hi) ==
    [k \in 1..((hi - lo) \div 4) |-> Float32(SubSeq(row, lo + 4 * (k - 1) + 1, lo + 4 * k))]

\* splat_uint8[:, 24:27] / 255.0 and splat_uint8[:, 27:28] / 255.0, one byte.
DecodeUnit(b) == Rat(b, 255)

\* A plausible slip: the 128-centred convention of the writers of the format.
DecodeRotCentred128(b) == Rat(b - 128, 128)

\* splat_uint8[:, 28:32] / 255.0 * 2.0 - 1.0, one byte.
DecodeRot(b) == RSub(RMul(Rat(b, 255), Two), One)


-----------------------------------------------------------------------------
(* The covariance reconstruction shared by the two readers. *)

\* tf.SO3(wxyz).as_matrix(): the closed form for a unit quaternion (w, x, y, z).
\* The transform library is not among the sources; the formula is the standard
\* one the specification names, and it does not normalise its argument.
as_matrix(wxyz) ==
    LET w == wxyz[1]
        x == wxyz[2]
        y == wxyz[3]
        z == wxyz[4]
        P(a, b) == RMul(a, b)
        D(a, b) == RSub(One, RMul(Two, RAdd(RSq(a), RSq(b))))
        S(a, b, c, d) == RMul(Two, RAdd(P(a, b), P(c, d)))
        M(a, b, c, d) == RMul(Two, RSub(P(a, b), P(c, d)))
    IN  << <<D(y, z), M(x, y, z, w), S(x, z, y, w)>>,
           <<S(x, y, z, w), D(x, z), M(y, z, x, w)>>,
           <<M(x, z, y, w), S(y, z, x, w), D(x, y)>> >>

\* onp.eye(3)[None, :, :] * scales[:, None, :] ** 2, for one Gaussian.
ScaleMatrix(scale) ==
    [j \in 1..3 |-> [k \in 1..3 |-> IF j = k THEN RSq(scale[k]) ELSE Zero]]

\* A plausible slip: "nij,njk,nkl->nil", the second R not transposed.
EinsumNoTranspose(R, D) ==
    [a \in 1..3 |-> [l \in 1..3 |->
        RSum([t \in 1..9 |->
            LET j == ((t - 1) \div 3) + 1
                k == ((t - 1) % 3) + 1
            IN  RMul(RMul(R[a][j], D[j][k]), R[k][l])])]]

\* onp.einsum("nij,njk,nlk->nil", Rs, D, Rs), for one Gaussian n:
\* out[i][l] = sum over j, k of R[i][j] * D[j][k] * R[l][k].
Einsum(R, D) ==
    [a \in 1..3 |-> [l \in 1..3 |->
        RSum([t \in 1..9 |->
            LET j == ((t - 1) \div 3) + 1
                k == ((t - 1) % 3) + 1
            IN  RMul(RMul(R[a][j], D[j][k]), R[l][k])])]]

\* Rs and covariances for all Gaussians.
Covariances(wxyzs, scales) ==
    [n \in DOMAIN wxyzs |-> Einsum(as_matrix(wxyzs[n]), ScaleMatrix(scales[n]))]

-----------------------------------------------------------------------------
(* Centering: positions -= onp.mean(positions, axis=0, keepdims=True). *)

\* A plausible slip: the first row taken as the origin instead of the centroid.
MeanFirstRow(centers) == centers[1]

\* onp.mean(centers, axis=0, keepdims=True): the mean of each column.
Mean(centers) ==
    [k \in 1..3 |->
        RDiv(RSum([n \in 1..Len(centers) |-> centers[n][k]]), <<Len(centers), 1>>)]

\* A plausible slip: axis=1, every row losing the mean of its own coordinates.
SubtractMeanAxis1(centers) ==
    [n \in 1..Len(centers) |->
        LET m == RDiv(RSum(centers[n]), <<3, 1>>)
        IN  [k \in 1..3 |-> RSub(centers[n][k], m)]]

\* centers -= mean: the same row subtracted from every row.
SubtractMean(centers) ==
    [n \in 1..Len(centers) |-> VSub(centers[n], Mean(centers))]

-----------------------------------------------------------------------------
(* What a reader hands back.  wxyzs and scales are locals of the reader, kept *)
(* beside the four returned arrays so that properties of what reaches the     *)
(* reconstruction can be stated.                                              *)

Returned(centers, rgbs, opacities, covariances, wxyzs, scales) ==
    [status |-> "ok", centers |-> centers, rgbs |-> rgbs, opacities |-> opacities,
     covariances |-> covariances, wxyzs |-> wxyzs, scales |-> scales]

\* An exception leaving the reader: nothing is returned.
Raised(exception) ==
    [status |-> exception, centers |-> <<>>, rgbs |-> <<>>, opacities |-> <<>>,
     covariances |-> <<>>, wxyzs |-> <<>>, scales |-> <<>>]

NotCalled == Raised("none")

load_splat_file(splat_buffer, center) ==
    LET num_gaussians == Len(splat_buffer) \div bytes_per_gaussian
        row(n)    == SplatRow(splat_buffer, n)
        scales    == [n \in 1..num_gaussians |-> ViewFloat32(row(n), 12, 24)]
        wxyzs     == [n \in 1..num_gaussians |->
                        [k \in 1..4 |-> DecodeRot(row(n)[28 + k])]]
        centers   == [n \in 1..num_gaussians |-> ViewFloat32(row(n), 0, 12)]
        rgbs      == [n \in 1..num_gaussians |->
                        [c \in 1..3 |-> DecodeUnit(row(n)[24 + c])]]
        opacities == [n \in 1..num_gaussians |-> <<DecodeUnit(row(n)[28])>>]
    IN  IF Len(splat_buffer) % bytes_per_gaussian # 0
        THEN \* assert len(splat_buffer) % bytes_per_gaussian == 0
             Raised("AssertionError")
        ELSE IF num_gaussians = 0
        THEN \* Rs = onp.array([]) has one axis; einsum's "nij" asks for three.
             Raised("ValueError")
        ELSE Returned(IF center THEN SubtractMean(centers) ELSE centers,
                      rgbs, opacities, Covariances(wxyzs, scales), wxyzs, scales)


-----------------------------------------------------------------------------
(* load_ply_file.  A vertex of the parsed file is a record of its named       *)
(* properties.  x, y, z, rot_* and f_dc_* hold the stored numbers; scale_*    *)
(* and opacity hold k for a stored value of k * ln 2.                         *)

\* onp.exp at k * ln 2.
Exp(k) == IF k >= 0 THEN <<Pow2(k), 1>> ELSE <<1, Pow2(-k)>>

\* The square root of a perfect square (the norms of the modelled rotations).
Sqrt(n) == CHOOSE r \in 0..n : r * r = n

\* The key argsort orders by:
\* -onp.exp(scale_0 + scale_1 + scale_2) / (1 + onp.exp(-opacity)).
SortKey(v) ==
    RDiv(RNeg(Exp(v.scale_0 + v.scale_1 + v.scale_2)), RAdd(One, Exp(-v.opacity)))

\* onp.argsort(keys): an index sequence along which the keys do not decrease.
\* The default sort is not stable: equal keys come in either order.
Argsort(keys) ==
    {p \in [1..Len(keys) -> 1..Len(keys)] :
        /\ \A a, b \in 1..Len(keys) : a # b => p[a] # p[b]
        /\ \A a \in 1..(Len(keys) - 1) : ~RLess(keys[p[a + 1]], keys[p[a]])}

\* The body of "for idx in sorted_indices": one vertex decoded.
\* A colour 0.5 + SH_C0 * f_dc is kept exactly, as the pair of its rational
\* part and its coefficient of SH_C0 = 0.28209479177387814.
PlyVertex(v) ==
    LET rot  == <<v.rot_0, v.rot_1, v.rot_2, v.rot_3>>
        norm == Sqrt(rot[1] * rot[1] + rot[2] * rot[2] + rot[3] * rot[3] + rot[4] * rot[4])
    IN  [position |-> <<Rat(v.x, 1), Rat(v.y, 1), Rat(v.z, 1)>>,
         scale    |-> <<Exp(v.scale_0), Exp(v.scale_1), Exp(v.scale_2)>>,
         color    |-> << <<Half, Rat(v.f_dc_0, 1)>>, <<Half, Rat(v.f_dc_1, 1)>>,
                         <<Half, Rat(v.f_dc_2, 1)>> >>,
         opacity  |-> <<RDiv(One, RAdd(One, Exp(-v.opacity)))>>,
         wxyz     |-> [k \in 1..4 |-> Rat(rot[k], norm)]]

\* onp.zeros((numgaussians, ...)) for the five arrays the loop fills.
PlyZeros(numgaussians) ==
    [scales    |-> [n \in 1..numgaussians |-> <<Zero, Zero, Zero>>],
     colors    |-> [n \in 1..numgaussians |->
                      << <<Zero, Zero>>, <<Zero, Zero>>, <<Zero, Zero>> >>],
     opacities |-> [n \in 1..numgaussians |-> <<Zero>>],
     positions |-> [n \in 1..numgaussians |-> <<Zero, Zero, Zero>>],
     wxyzs     |-> [n \in 1..numgaussians |-> <<Zero, Zero, Zero, Zero>>]]

\* The loop "for idx in sorted_indices": every array is written at idx, the
\* vertex's own index in the file, whatever the place of idx in sorted_indices.
RECURSIVE PlyLoop(_, _, _)
PlyLoop(arrays, vert, sorted_indices) ==
    IF sorted_indices = <<>> THEN arrays
    ELSE LET idx == Head(sorted_indices)
             d   == PlyVertex(vert[idx])
         IN  PlyLoop([scales    |-> [arrays.scales EXCEPT ![idx] = d.scale],
                      colors    |-> [arrays.colors EXCEPT ![idx] = d.color],
                      opacities |-> [arrays.opacities EXCEPT ![idx] = d.opacity],
                      positions |-> [arrays.positions EXCEPT ![idx] = d.position],
                      wxyzs     |-> [arrays.wxyzs EXCEPT ![idx] = d.wxyz]],
                     vert, Tail(sorted_indices))

\* load_ply_file, given the order argsort returned.
load_ply_file(vert, center, sorted_indices) ==
    LET numgaussians == Len(vert)
        a == PlyLoop(PlyZeros(numgaussians), vert, sorted_indices)
    IN  IF numgaussians = 0
        THEN \* Rs = onp.array([]) has one axis; einsum's "nij" asks for three.
             Raised("ValueError")
        ELSE Returned(IF center THEN SubtractMean(a.positions) ELSE a.positions,
                      a.colors, a.opacities, Covariances(a.wxyzs, a.scales),
                      a.wxyzs, a.scales)

-----------------------------------------------------------------------------
(* The files of the model. *)

\* binary32 encodings, least significant byte first.
F32_0     == <<0, 0, 0, 0>>
F32_1     == <<0, 0, 128, 63>>
F32_2     == <<0, 0, 0, 64>>
F32_3     == <<0, 0, 64, 64>>
F32_half  == <<0, 0, 0, 63>>
F32_neg1  == <<0, 0, 128, 191>>
F32_neg2  == <<0, 0, 0, 192>>

\* Whole 32-byte records: position, scale, rgba, rotation.
BaseRecords ==
    { F32_1 \o F32_0 \o F32_0       \o F32_1 \o F32_1 \o F32_1
            \o <<255, 0, 0, 255>>   \o <<255, 0, 0, 0>>,
      F32_3 \o F32_2 \o F32_neg1    \o F32_2 \o F32_neg1 \o F32_half
            \o <<0, 128, 255, 127>> \o <<255, 255, 0, 255>>,
      F32_0 \o F32_0 \o F32_0       \o F32_0 \o F32_0 \o F32_0
            \o <<0, 0, 0, 0>>       \o <<0, 0, 0, 0>>,
      F32_neg2 \o F32_half \o F32_1 \o F32_neg2 \o F32_1 \o F32_3
            \o <<10, 20, 30, 40>>   \o <<0, 255, 255, 0>> }

\* Records of zeros but for one byte value b, put at place p of the four rgba
\* bytes and at place p of the four rotation bytes: every byte value at every
\* place.  Their scale is zero, which keeps the covariance of a rotation with
\* denominator 255 within TLC's integers.
ProbeRecords ==
    {[k \in 1..bytes_per_gaussian |-> IF k = 24 + p \/ k = 28 + p THEN b ELSE 0] :
        p \in 1..4, b \in 0..255}

RECURSIVE Concat(_)
Concat(ss) == IF ss = <<>> THEN <<>> ELSE Head(ss) \o Concat(Tail(ss))

SeqsUpTo(S, n) == UNION {[1..m -> S] : m \in 0..n}

\* Buffers: up to MaxGaussians records and up to MaxExtra bytes after them,
\* and the one-record probes.
SplatBuffers ==
    {Concat(rs) \o [k \in 1..x |-> 0] : rs \in SeqsUpTo(BaseRecords, MaxGaussians),
                                        x \in 0..MaxExtra}
    \cup ProbeRecords

Vertex(pos, sc, rot, dc, op) ==
    [x |-> pos[1], y |-> pos[2], z |-> pos[3],
     scale_0 |-> sc[1], scale_1 |-> sc[2], scale_2 |-> sc[3],
     rot_0 |-> rot[1], rot_1 |-> rot[2], rot_2 |-> rot[3], rot_3 |-> rot[4],
     f_dc_0 |-> dc[1], f_dc_1 |-> dc[2], f_dc_2 |-> dc[3], opacity |-> op]

BaseVertices ==
    { Vertex(<<1, 0, 0>>,   <<0, 0, 0>>,  <<1, 0, 0, 0>>,  <<1, 0, -1>>, 0),
      Vertex(<<3, 2, -1>>,  <<1, 0, 1>>,  <<2, 2, 1, 0>>,  <<0, 2, 0>>,  1),
      Vertex(<<0, -2, 4>>,  <<0, 1, 0>>,  <<1, 1, 1, 1>>,  <<-1, 1, 3>>, -1),
      Vertex(<<-1, -1, 0>>, <<-1, 0, 1>>, <<0, 0, -3, 0>>, <<2, 2, 2>>,  0) }

PlyVertexLists == SeqsUpTo(BaseVertices, MaxGaussians)

\* A path: its suffix and what the file holds (bytes, or the parsed vertices).
Path(suffix, bytes, vertex) == [suffix |-> suffix, bytes |-> bytes, vertex |-> vertex]

ReaderFiles ==
    {Path(".splat", b, <<>>) : b \in SplatBuffers}
    \cup {Path(".ply", <<>>, v) : v \in PlyVertexLists}

-----------------------------------------------------------------------------
(* The readers called directly, as a library: each of center = False and     *)
(* center = True at most once on the same file.                              *)

MainIdle ==
    /\ splat_paths = <<>>
    /\ test_multisplat = FALSE
    /\ pc = "idle"
    /\ i = 0
    /\ splat_data = NotCalled
    /\ scene = <<>>
    /\ opened = {}
    /\ exit = "running"

InitReaders ==
    /\ file \in ReaderFiles
    /\ ret = [c \in BOOLEAN |-> NotCalled]
    /\ MainIdle

mainVars == <<splat_paths, test_multisplat, pc, i, splat_data, scene, opened, exit>>

LoadSplatFile(center) ==
    /\ file.suffix = ".splat"
    /\ ret[center].status = "none"
    /\ ret' = [ret EXCEPT ![center] = load_splat_file(file.bytes, center)]
    /\ UNCHANGED <<file, mainVars>>

LoadPlyFile(center) ==
    /\ file.suffix = ".ply"
    /\ ret[center].status = "none"
    /\ \E sorted_indices \in Argsort([n \in 1..Len(file.vertex) |-> SortKey(file.vertex[n])]) :
          ret' = [ret EXCEPT ![center] = load_ply_file(file.vertex, center, sorted_indices)]
    /\ UNCHANGED <<file, mainVars>>

NextReaders ==
    \/ \E center \in BOOLEAN : LoadSplatFile(center)
    \/ \E center \in BOOLEAN : LoadPlyFile(center)

SpecReaders == InitReaders /\ [][NextReaders]_vars


-----------------------------------------------------------------------------
(* main: the loop over splat_paths.  The viewer (server, GUI button, scene)  *)
(* is outside the model but for the arrays handed to it.                     *)

\* A plausible slip: the last branch falling through to the .ply reader.
DispatchNoElse(suffix) ==
    IF suffix = ".splat" THEN "load_splat_file" ELSE "load_ply_file"

\* The if / elif / else on splat_path.suffix.
Dispatch(suffix) ==
    IF suffix = ".splat" THEN "load_splat_file"
    ELSE IF suffix = ".ply" THEN "load_ply_file"
    ELSE "SystemExit"

Running == [ended |-> FALSE, code |-> 0, message |-> ""]

\* An exception or SystemExit(message) leaving main: the interpreter writes it
\* to stderr and ends the process with status 1.
Exited(message) == [ended |-> TRUE, code |-> 1, message |-> message]

UsageMessage == "Please provide a filepath to a .splat or .ply file."

MainPaths ==
    { Path(".splat", Concat(<<CHOOSE r \in BaseRecords : r[1 + 24] = 255,
                              CHOOSE r \in BaseRecords : r[1 + 24] = 10>>), <<>>),
      Path(".splat", [k \in 1..(bytes_per_gaussian + 1) |-> 0], <<>>),
      Path(".ply", <<>>, <<CHOOSE v \in BaseVertices : v.opacity = 1,
                           CHOOSE v \in BaseVertices : v.opacity = -1>>),
      Path(".ply", <<>>, <<CHOOSE v \in BaseVertices : v.opacity = 1>>),
      Path(".txt", <<104, 105>>, <<>>) }

ReadersIdle ==
    /\ file = Path("", <<>>, <<>>)
    /\ ret = [c \in BOOLEAN |-> NotCalled]

Init ==
    /\ splat_paths \in SeqsUpTo(MainPaths, MaxPaths)
    /\ test_multisplat \in BOOLEAN
    /\ pc = "loop"
    /\ i = 0
    /\ splat_data = NotCalled
    /\ scene = <<>>
    /\ opened = {}
    /\ exit = Running
    /\ ReadersIdle

\* The reader's value is kept, or its exception ends the process.
Loaded(data) ==
    /\ opened' = opened \cup {i}
    /\ IF data.status = "ok"
       THEN splat_data' = data /\ pc' = "add" /\ exit' = exit
       ELSE splat_data' = splat_data /\ pc' = "exit" /\ exit' = Exited(data.status)
    /\ UNCHANGED <<file, ret, splat_paths, test_multisplat, i, scene>>

\* splat_data = load_splat_file(splat_path, center=True)
DispatchSplat ==
    /\ pc = "loop"
    /\ i < Len(splat_paths)
    /\ Dispatch(splat_paths[i + 1].suffix) = "load_splat_file"
    /\ Loaded(load_splat_file(splat_paths[i + 1].bytes, TRUE))

\* splat_data = load_ply_file(splat_path, center=True)
DispatchPly ==
    /\ pc = "loop"
    /\ i < Len(splat_paths)
    /\ Dispatch(splat_paths[i + 1].suffix) = "load_ply_file"
    /\ LET vert == splat_paths[i + 1].vertex
       IN  \E sorted_indices \in Argsort([n \in 1..Len(vert) |-> SortKey(vert[n])]) :
              Loaded(load_ply_file(vert, TRUE, sorted_indices))

\* raise SystemExit("Please provide a filepath to a .splat or .ply file.")
DispatchUnsupported ==
    /\ pc = "loop"
    /\ i < Len(splat_paths)
    /\ Dispatch(splat_paths[i + 1].suffix) = "SystemExit"
    /\ pc' = "exit"
    /\ exit' = Exited(UsageMessage)
    /\ UNCHANGED <<file, ret, splat_paths, test_multisplat, i, splat_data, scene, opened>>

\* server.scene.add_transform_controls(f"/{i}") and
\* server.scene._add_gaussian_splats(f"/{i}/gaussian_splats", ...)
AddGaussianSplats ==
    /\ pc = "add"
    /\ scene' = Append(scene, [name |-> i,
                               centers |-> splat_data.centers,
                               rgbs |-> splat_data.rgbs,
                               opacities |-> splat_data.opacities,
                               covariances |-> splat_data.covariances])
    /\ i' = i + 1
    /\ pc' = "loop"
    /\ UNCHANGED <<file, ret, splat_paths, test_multisplat, splat_data, opened, exit>>

\* The loop is over: while True: time.sleep(10.0)
ServeForever ==
    /\ pc = "loop"
    /\ i = Len(splat_paths)
    /\ pc' = "serve"
    /\ UNCHANGED <<file, ret, splat_paths, test_multisplat, i, splat_data, scene,
                   opened, exit>>

Next ==
    \/ DispatchSplat
    \/ DispatchPly
    \/ DispatchUnsupported
    \/ AddGaussianSplats
    \/ ServeForever

Spec == Init /\ [][Next]_vars


-----------------------------------------------------------------------------
(* Vocabulary of the properties. *)

Called(c) == ret[c].status # "none"
Ok(c) == ret[c].status = "ok"
IsSplat == file.suffix = ".splat"
IsPly == file.suffix = ".ply"
Rows(r) == 1..Len(r.centers)

\* Row n of a returned value's four arrays.
Row(r, n) == <<r.centers[n], r.rgbs[n], r.opacities[n], r.covariances[n]>>

\* The sum of column k of a sequence of 3-vectors.
ColumnSum(centers, k) == RSum([n \in 1..Len(centers) |-> centers[n][k]])

NormSq(q) == RSum([k \in 1..4 |-> RSq(q[k])])

Transpose(C) == [a \in 1..3 |-> [b \in 1..3 |-> C[b][a]]]

Minor2(C, a, b) == RSub(RMul(C[a][a], C[b][b]), RMul(C[a][b], C[b][a]))

Det3(C) ==
    RSum(<< RMul(C[1][1], RSub(RMul(C[2][2], C[3][3]), RMul(C[2][3], C[3][2]))),
            RNeg(RMul(C[1][2], RSub(RMul(C[2][1], C[3][3]), RMul(C[2][3], C[3][1])))),
            RMul(C[1][3], RSub(RMul(C[2][1], C[3][2]), RMul(C[2][2], C[3][1]))) >>)

\* A symmetric matrix has no negative eigenvalue exactly when none of its
\* principal minors is negative.
PrincipalMinorsNonNegative(C) ==
    /\ \A a \in 1..3 : C[a][a][1] >= 0
    /\ Minor2(C, 1, 2)[1] >= 0
    /\ Minor2(C, 1, 3)[1] >= 0
    /\ Minor2(C, 2, 3)[1] >= 0
    /\ Det3(C)[1] >= 0

\* exp(scale_0 + scale_1 + scale_2) / (1 + exp(-opacity)) of returned row n of a
\* .ply file: the product of the three decoded scales and the decoded opacity.
Importance(r, n) ==
    RMul(RMul(RMul(r.scales[n][1], r.scales[n][2]), r.scales[n][3]), r.opacities[n][1])

\* The 32 bytes of record n of the file (n from 1), loaded as a file of their own.
Alone(n) ==
    load_splat_file(SubSeq(file.bytes, 32 * (n - 1) + 1, 32 * n), FALSE)

-----------------------------------------------------------------------------
(* Claims about the readers, under SpecReaders. *)

\* C1 (as claimed): the rows load_ply_file returns are in descending order of
\* importance: no row has a smaller importance than a row after it.
C1_DescendingImportance ==
    \A c \in BOOLEAN :
        (IsPly /\ Ok(c)) =>
            \A a, b \in Rows(ret[c]) :
                a < b => ~RLess(Importance(ret[c], a), Importance(ret[c], b))

\* C2 (as claimed): load_splat_file returns len/32 splats when the length of the
\* buffer is a multiple of 32, the empty buffer included, and fails otherwise.
C2_RecordAlignment ==
    \A c \in BOOLEAN :
        (IsSplat /\ Called(c)) =>
            IF Len(file.bytes) % 32 = 0
            THEN /\ Ok(c)
                 /\ Len(ret[c].centers) = Len(file.bytes) \div 32
                 /\ Len(ret[c].rgbs) = Len(file.bytes) \div 32
                 /\ Len(ret[c].opacities) = Len(file.bytes) \div 32
                 /\ Len(ret[c].covariances) = Len(file.bytes) \div 32
            ELSE /\ ret[c].status = "AssertionError"
                 /\ ret[c].centers = <<>>

\* C3 (as claimed): every quaternion a reader hands to the reconstruction has
\* unit norm.
C3_UnitQuaternions ==
    \A c \in BOOLEAN :
        Ok(c) => \A n \in Rows(ret[c]) : NormSq(ret[c].wxyzs[n]) = One

\* C4 (as claimed): row n of every array load_splat_file returns, centers
\* included, is decided by the 32 bytes of record n alone.
C4_RowFromOwnBytesOnly ==
    \A c \in BOOLEAN :
        (IsSplat /\ Ok(c)) =>
            /\ Len(ret[c].centers) = Len(file.bytes) \div 32
            /\ \A n \in Rows(ret[c]) : Row(ret[c], n) = Row(Alone(n), 1)

\* C4 (amended): row n of rgbs, opacities and covariances is decided by the 32
\* bytes of record n alone, in file order; row n of centers is the position in
\* those bytes, less the centroid of all the positions when center is True.
C4_RowFromOwnBytes ==
    \A c \in BOOLEAN :
        (IsSplat /\ Ok(c)) =>
            LET r == ret[c]
                N == Len(file.bytes) \div 32
            IN  /\ Len(r.centers) = N /\ Len(r.rgbs) = N
                /\ Len(r.opacities) = N /\ Len(r.covariances) = N
                /\ \A n \in 1..N :
                    /\ r.rgbs[n] = Alone(n).rgbs[1]
                    /\ r.opacities[n] = Alone(n).opacities[1]
                    /\ r.covariances[n] = Alone(n).covariances[1]
                    /\ \A k \in 1..3 :
                        RMul(<<N, 1>>, RSub(Alone(n).centers[1][k], r.centers[n][k]))
                          = IF c THEN RSum([m \in 1..N |-> Alone(m).centers[1][k]])
                            ELSE Zero

\* Two different records were read with center = True, and their centroid is
\* not the origin.
C4_Witness ==
    /\ IsSplat /\ Ok(TRUE)
    /\ Len(ret[TRUE].centers) = 2
    /\ Alone(1) # Alone(2)
    /\ ret[TRUE].centers[1] # Alone(1).centers[1]

\* The decode of one byte, over all 256 bytes: increasing, 0 -> 0 and 255 -> 1
\* for colour and opacity, 0 -> -1 and 255 -> 1 for rotation, never 0 for
\* rotation.
DecodeShape ==
    /\ \A b \in 0..254 : RLess(DecodeUnit(b), DecodeUnit(b + 1))
    /\ \A b \in 0..254 : RLess(DecodeRot(b), DecodeRot(b + 1))
    /\ DecodeUnit(0) = Zero /\ DecodeUnit(255) = One
    /\ DecodeRot(0) = <<-1, 1>> /\ DecodeRot(255) = One
    /\ \A b \in 0..255 : DecodeRot(b) # Zero
    /\ DecodeRot(127) = <<-1, 255>> /\ DecodeRot(128) = <<1, 255>>

\* C5: in what load_splat_file computes for record n, colour channel c is
\* byte[24+c]/255, opacity is byte[27]/255 and rotation component k is
\* byte[28+k]/255*2-1 = (2*byte - 255)/255; and the decode has the shape above.
C5_ByteDecode ==
    /\ DecodeShape
    /\ \A c \in BOOLEAN :
        (IsSplat /\ Ok(c)) =>
            \A n \in Rows(ret[c]) :
                LET byte(o) == file.bytes[32 * (n - 1) + o + 1]
                IN  /\ \A ch \in 0..2 : ret[c].rgbs[n][ch + 1] = Rat(byte(24 + ch), 255)
                    /\ ret[c].opacities[n] = <<Rat(byte(27), 255)>>
                    /\ \A k \in 0..3 :
                        ret[c].wxyzs[n][k + 1] = Rat(2 * byte(28 + k) - 255, 255)

\* A record whose first rotation byte is 128 was decoded: w = 1/255, not 0.
C5_Witness ==
    /\ IsSplat /\ Ok(FALSE)
    /\ file.bytes[28 + 1] = 128
    /\ ret[FALSE].wxyzs[1][1] = <<1, 255>>

\* C8: after a reader ran with center = True on a file that is not empty, the
\* centers it returned sum to zero in every coordinate, and each is the centre
\* the reader returns without centering less one and the same vector, the mean
\* of those uncentered centres.
C8_CenteredMeanZero ==
    Ok(TRUE) =>
        /\ \A k \in 1..3 : ColumnSum(ret[TRUE].centers, k) = Zero
        /\ Ok(FALSE) =>
            \A n \in Rows(ret[TRUE]) : \A k \in 1..3 :
                RMul(<<Len(ret[FALSE].centers), 1>>,
                     RSub(ret[FALSE].centers[n][k], ret[TRUE].centers[n][k]))
                  = ColumnSum(ret[FALSE].centers, k)

\* A .ply file of two vertices was loaded both ways, and centering moved it.
C8_Witness ==
    /\ IsPly /\ Ok(TRUE) /\ Ok(FALSE)
    /\ Len(ret[TRUE].centers) = 2
    /\ ret[TRUE].centers[1] # ret[FALSE].centers[1]
    /\ ret[TRUE].centers[1] # ret[TRUE].centers[2]

\* The scale vector with the sign of component f flipped.
Flipped(scale, f) == [k \in 1..3 |-> IF k = f THEN RNeg(scale[k]) ELSE scale[k]]

\* C9: every covariance a reader returns equals its transpose, has no negative
\* principal minor (so no negative eigenvalue), and is what the reconstruction
\* gives for the same rotation with the sign of any scale component flipped.
C9_CovarianceSymmetricPSD ==
    \A c \in BOOLEAN :
        Ok(c) =>
            \A n \in Rows(ret[c]) :
                LET C == ret[c].covariances[n]
                IN  /\ C = Transpose(C)
                    /\ PrincipalMinorsNonNegative(C)
                    /\ \A f \in 1..3 :
                        Einsum(as_matrix(ret[c].wxyzs[n]),
                               ScaleMatrix(Flipped(ret[c].scales[n], f))) = C

\* A record with a negative scale and a rotation matrix that is not symmetric
\* was reconstructed, and its covariance is not diagonal.
C9_Witness ==
    \E c \in BOOLEAN :
        /\ IsSplat /\ Ok(c)
        /\ \E n \in Rows(ret[c]) :
            /\ ret[c].scales[n][2][1] < 0
            /\ as_matrix(ret[c].wxyzs[n]) # Transpose(as_matrix(ret[c].wxyzs[n]))
            /\ ret[c].covariances[n][1][2] # Zero

\* C10: for the same file, the reader called with center = True and with
\* center = False ends the same way, and when it returns, returns as many rows,
\* the same rgbs, opacities and covariances in the same order, and centers that
\* differ by one and the same vector in every row.
C10_CenterOnlyTranslates ==
    (Called(TRUE) /\ Called(FALSE)) =>
        LET t == ret[TRUE]
            f == ret[FALSE]
        IN  /\ t.status = f.status
            /\ Len(t.centers) = Len(f.centers)
            /\ t.rgbs = f.rgbs
            /\ t.opacities = f.opacities
            /\ t.covariances = f.covariances
            /\ \A n \in Rows(t) : VSub(f.centers[n], t.centers[n])
                                    = VSub(f.centers[1], t.centers[1])

\* A .splat file of two records was loaded both ways, and centering moved it.
C10_Witness ==
    /\ IsSplat /\ Ok(TRUE) /\ Ok(FALSE)
    /\ Len(ret[TRUE].rgbs) = 2
    /\ ret[TRUE].rgbs[1] # ret[TRUE].rgbs[2]
    /\ ret[TRUE].centers # ret[FALSE].centers

-----------------------------------------------------------------------------
(* Claims about main, under Spec. *)

\* What the reader returns for path p with the given center argument.
Read(p, center) ==
    IF p.suffix = ".splat" THEN load_splat_file(p.bytes, center)
    ELSE load_ply_file(p.vertex, center,
                       CHOOSE s \in Argsort([n \in 1..Len(p.vertex) |-> SortKey(p.vertex[n])]) : TRUE)

\* C6 (as claimed): the centers handed to the viewer are the positions of the
\* file, untranslated, when the flag is off, and centered when it is on.
C6_CenteringOnlyWhenFlagged ==
    \A k \in 1..Len(scene) :
        scene[k].centers = Read(splat_paths[scene[k].name + 1], test_multisplat).centers

Unsupported(p) == p.suffix # ".splat" /\ p.suffix # ".ply"

\* C7: for a path j whose suffix is neither .splat nor .ply, the bytes of j are
\* never read, nothing is added to the scene for j, the loop never goes past j
\* nor on to serving, and once the loop has reached j and acted, the process
\* has ended with the usage message and a nonzero status.
C7_UnsupportedAbortsAtDispatch ==
    \A j \in 0..(Len(splat_paths) - 1) :
        Unsupported(splat_paths[j + 1]) =>
            /\ j \notin opened
            /\ \A k \in 1..Len(scene) : scene[k].name # j
            /\ i <= j
            /\ pc # "serve"
            /\ (i = j /\ pc # "loop") =>
                  /\ pc = "exit"
                  /\ exit.ended /\ exit.code # 0 /\ exit.message = UsageMessage

\* The second path is unsupported: the first was loaded and added, and the
\* process then ended with the usage message.
C7_Witness ==
    /\ Len(splat_paths) = 2
    /\ Unsupported(splat_paths[2])
    /\ pc = "exit" /\ exit.message = UsageMessage
    /\ i = 1 /\ Len(scene) = 1 /\ opened = {0}

=============================================================================
